---- MODULE Spec2Model ----
(***************************************************************************)
(* Habit tracker backend: the habit_completions / habits tables, the       *)
(* toggle and streak recompute of HabitService, and the habit routes that  *)
(* call them behind authenticateToken and the request validation.  Every   *)
(* await on the database is one atomic step of a request; requests         *)
(* interleave at those steps.                                              *)
(*                                                                         *)
(* Time is counted in slots, SlotsPerDay slots to a UTC day.  A JS Date is *)
(* a slot number, a completion_date string 'YYYY-MM-DD' is a day number.   *)
(* The server's time zone is taken to have a fixed offset, so that         *)
(* setDate(getDate() - 1) moves a Date back by exactly one day.            *)
(***************************************************************************)
EXTENDS Integers, Sequences, FiniteSets, TLC

\* ---------------------------------------------------------------- bounds
MaxDay == 1          \* days 0..MaxDay; the wall clock starts on day MaxDay - 1
SlotsPerDay == 2     \* instants told apart inside one UTC day
MaxOps == 2          \* toggle / recalculate / delete requests per behaviour
MaxHistory == 3      \* the days 0..MaxHistory of a habit's history in SpecStreaks

Days == 0..MaxDay
Instants == 0..((MaxDay + 1) * SlotsPerDay - 1)
Users == {"U", "V"}
Habits == {1}
Procs == {1, 2}

VARIABLES
    habits,        \* table habits: id -> row
    completions,   \* table habit_completions: habit_id -> completion_date -> rows
    clock,         \* the UTC day of the wall clock
    req,           \* the requests in flight: slot -> locals of the handler
    ops,           \* requests started so far
    trail          \* history: the toggles that ran alone, back to back

vars == <<habits, completions, clock, req, ops, trail>>

\* ------------------------------------------------------------ conversions
\* new Date('YYYY-MM-DD'): UTC midnight of that day
ParseDate(day) == day * SlotsPerDay

\* d.toISOString().split('T')[0]: the UTC day an instant falls on
DateStr(t) == t \div SlotsPerDay

\* d.setDate(d.getDate() - n)
MinusDays(t, n) == t - n * SlotsPerDay

\* an instant of the current wall-clock day, as new Date() returns it
Now(day) == ParseDate(day)

\* ------------------------------------------------------------ array helpers
includes(s, x) == \E i \in 1..Len(s) : s[i] = x

RECURSIVE InsertAsc(_, _)
InsertAsc(s, x) ==
    IF s = <<>> THEN <<x>>
    ELSE IF x <= Head(s) THEN <<x>> \o s
    ELSE <<Head(s)>> \o InsertAsc(Tail(s), x)

RECURSIVE SortAsc(_)
SortAsc(s) == IF s = <<>> THEN <<>> ELSE InsertAsc(SortAsc(Tail(s)), Head(s))

Reverse(s) == [i \in 1..Len(s) |-> s[Len(s) + 1 - i]]

\* as SortDesc, but leaving the array in the order it came in
SortDescKeepsOrder(s) == s

SortDesc(s) == Reverse(SortAsc(s))

Max(a, b) == IF a >= b THEN a ELSE b

\* ------------------------------------------------- updateHabitStreaks, pure part
\* the for-of loop over sortedDates: count while each date is the expected one
RECURSIVE CurrentStreakLoop(_, _, _, _)
CurrentStreakLoop(sortedDates, i, checkDate, currentStreak) ==
    IF i > Len(sortedDates) THEN currentStreak
    ELSE IF ParseDate(sortedDates[i]) = checkDate
         THEN CurrentStreakLoop(sortedDates, i + 1, MinusDays(checkDate, 1), currentStreak + 1)
         ELSE currentStreak

\* as CurrentStreak, but anchored on the newest completed date, without the
\* check that today or yesterday is completed
CurrentStreakFromNewest(dates, today, yesterdayStr) ==
    IF Len(dates) = 0 THEN 0
    ELSE LET sortedDates == SortDesc(dates)
         IN  CurrentStreakLoop(sortedDates, 1, ParseDate(sortedDates[1]), 0)

\* as CurrentStreak, but counting every fetched date once the anchor is found
CurrentStreakCountsAll(dates, today, yesterdayStr) ==
    IF Len(dates) = 0 THEN 0
    ELSE IF includes(dates, today) \/ includes(dates, yesterdayStr) THEN Len(dates)
    ELSE 0

\* current streak of the fetched dates, given the two date strings the code derives
CurrentStreak(dates, today, yesterdayStr) ==
    IF Len(dates) = 0 THEN 0
    ELSE LET sortedDates == SortDesc(dates) IN
         IF includes(sortedDates, today) \/ includes(sortedDates, yesterdayStr)
         THEN CurrentStreakLoop(sortedDates, 1,
                  ParseDate(IF includes(sortedDates, today) THEN today ELSE yesterdayStr), 0)
         ELSE 0

\* the indexed loop over allDates; returns the pair <<longestStreak, tempStreak>>
RECURSIVE LongestStreakLoop(_, _, _, _)
LongestStreakLoop(allDates, i, longestStreak, tempStreak) ==
    IF i > Len(allDates) THEN <<longestStreak, tempStreak>>
    ELSE IF i = 1 THEN LongestStreakLoop(allDates, i + 1, longestStreak, 1)
    ELSE IF allDates[i] - allDates[i - 1] = SlotsPerDay
         THEN LongestStreakLoop(allDates, i + 1, longestStreak, tempStreak + 1)
         ELSE LongestStreakLoop(allDates, i + 1, Max(longestStreak, tempStreak), 1)

\* as LongestStreak, but without the final Math.max after the loop
LongestStreakNoFinalMax(dates) ==
    IF Len(dates) = 0 THEN 0
    ELSE LET allDates == SortAsc([i \in 1..Len(dates) |-> ParseDate(dates[i])])
         IN  LongestStreakLoop(allDates, 1, 0, 0)[1]

\* as LongestStreak, but without the guard on an empty result and with
\* tempStreak starting at 1
LongestStreakTempStartsAtOne(dates) ==
    LET allDates == SortAsc([i \in 1..Len(dates) |-> ParseDate(dates[i])])
        r == LongestStreakLoop(allDates, 1, 0, 1)
    IN  Max(r[1], r[2])

LongestStreak(dates) ==
    IF Len(dates) = 0 THEN 0
    ELSE LET allDates == SortAsc([i \in 1..Len(dates) |-> ParseDate(dates[i])])
             r == LongestStreakLoop(allDates, 1, 0, 0)
         IN  Max(r[1], r[2])

\* ------------------------------------------------------------- the tables
NoHabit == [status |-> "none", user_id |-> "none", current_streak |-> 0, longest_streak |-> 0]
Deleted == [NoHabit EXCEPT !.status = "deleted"]

\* rows of habit_completions of one habit with completed = true, newest first
\* (.eq('habit_id').eq('completed', true).order('completion_date', desc))
RECURSIVE CompletedFrom(_, _, _)
CompletedFrom(comp, h, d) ==
    IF d < 0 THEN <<>>
    ELSE LET rows == comp[h][d]
             here == SelectSeq(rows, LAMBDA r : r.completed)
         IN  [i \in 1..Len(here) |-> d] \o CompletedFrom(comp, h, d - 1)

\* the last day the tables of this behaviour hold
LastDay(comp) == Cardinality(DOMAIN comp[1]) - 1

\* as FetchCompleted, but without .eq('completed', true)
RECURSIVE AllRowsFrom(_, _, _)
AllRowsFrom(comp, h, d) ==
    IF d < 0 THEN <<>>
    ELSE [i \in 1..Len(comp[h][d]) |-> d] \o AllRowsFrom(comp, h, d - 1)

FetchAllRows(comp, h) == AllRowsFrom(comp, h, LastDay(comp))

\* as FetchCompleted, but over a window that leaves out the newest day
FetchCompletedWindow(comp, h) == CompletedFrom(comp, h, LastDay(comp) - 1)

FetchCompleted(comp, h) == CompletedFrom(comp, h, LastDay(comp))

\* as UniqueAllows, but without the constraint
UniqueAllowsAlways(comp, h, d) == TRUE

\* UNIQUE(habit_id, completion_date): may a row with this key be inserted
UniqueAllows(comp, h, d) == Len(comp[h][d]) = 0

\* habit_id REFERENCES habits(id): may a row point at this habit
ForeignKeyAllows(hab, h) == hab[h].status = "live"

\* ------------------------------------------------------------- requests
\* options.days as the route passes it when the query names none
DefaultDays == 14

Idle == [pc |-> "idle", op |-> "none", user |-> "none", habit |-> 0, date |-> 0,
         completionDate |-> 0, completed |-> FALSE, existing |-> 0,
         fetched |-> <<>>, today |-> 0, yesterdayStr |-> 0,
         currentStreak |-> 0, longestStreak |-> 0,
         clean |-> FALSE, overwritten |-> FALSE,
         updateData |-> <<>>, result |-> <<>>,
         completed_today |-> "undefined", sortBy |-> "created_at", days |-> DefaultDays,
         token |-> "none", status |-> 0]

InFlight(p) == req[p].pc \in {"upsert", "fetch", "compute", "persist", "completions"}
Free(p) == ~InFlight(p)
Quiescent == \A p \in Procs : Free(p)

\* history bookkeeping: a step of somebody else spoils every request in flight
Spoil(r, p) == [q \in Procs |->
    IF q # p /\ r[q].pc \in {"upsert", "fetch", "compute", "persist", "completions"}
    THEN [r[q] EXCEPT !.clean = FALSE] ELSE r[q]]

Entry(r) == [habit |-> r.habit, completionDate |-> r.completionDate,
             completed |-> r.completed, currentStreak |-> r.currentStreak,
             longestStreak |-> r.longestStreak]

Push(t, e) == IF Len(t) < 2 THEN Append(t, e) ELSE <<t[2], e>>

Init ==
    /\ habits = [h \in Habits |-> NoHabit]
    /\ completions = [h \in Habits |-> [d \in Days |-> <<>>]]
    /\ clock = MaxDay - 1
    /\ req = [p \in Procs |-> Idle]
    /\ ops = 0
    /\ trail = <<>>

\* ------------------------------------------------------------- operations
\* as createHabit, but handing out the id of a deleted habit again
createHabitReusesIds(u) ==
    /\ \E h \in DOMAIN habits :
          /\ habits[h].status \in {"none", "deleted"}
          /\ \A g \in DOMAIN habits : g < h => habits[g].status = "live"
          /\ habits' = [habits EXCEPT ![h] =
                 [status |-> "live", user_id |-> u, title |-> "a", is_archived |-> FALSE,
                  current_streak |-> 0, longest_streak |-> 0]]
    /\ req' = Spoil(req, 0)
    /\ trail' = <<>>
    /\ UNCHANGED <<completions, clock, ops>>

\* createHabit: the insert into habits; the new row gets a fresh id, the title
\* given, is_archived = false and the column defaults current_streak = 0,
\* longest_streak = 0
createHabit(u) ==
    /\ \E h \in DOMAIN habits :
          /\ habits[h].status = "none"
          /\ \A g \in DOMAIN habits : g < h => habits[g].status # "none"
          /\ habits' = [habits EXCEPT ![h] =
                 [status |-> "live", user_id |-> u, title |-> "a", is_archived |-> FALSE,
                  current_streak |-> 0, longest_streak |-> 0]]
    /\ req' = Spoil(req, 0)
    /\ trail' = <<>>
    /\ UNCHANGED <<completions, clock, ops>>

\* deleteHabit: delete from habits where id = h and user_id = u; the rows of
\* habit_completions that reference the habit go with it (ON DELETE CASCADE)
deleteHabit(u, h) ==
    /\ ops < MaxOps
    /\ ops' = ops + 1
    /\ IF habits[h].status = "live" /\ habits[h].user_id = u
       THEN /\ habits' = [habits EXCEPT ![h] = Deleted]
            /\ completions' = [completions EXCEPT ![h] = [d \in DOMAIN completions[h] |-> <<>>]]
            /\ req' = [q \in Procs |->
                   IF InFlight(q) /\ req[q].habit = h
                   THEN [req[q] EXCEPT !.clean = FALSE, !.overwritten = TRUE]
                   ELSE IF InFlight(q) THEN [req[q] EXCEPT !.clean = FALSE] ELSE req[q]]
       ELSE /\ req' = Spoil(req, 0)
            /\ UNCHANGED <<habits, completions>>
    /\ trail' = <<>>
    /\ UNCHANGED clock

\* toggleHabitCompletion, up to the first await: the completion date is derived
\* from the date argument and the existing row is looked up by
\* (habit_id, completion_date); .single() yields a row only when exactly one matches
toggleHabitCompletionSelect(p, u, h, date, completed) ==
    /\ Free(p)
    /\ \A q \in Procs : q < p => InFlight(q)
    /\ ops < MaxOps
    /\ ops' = ops + 1
    /\ DateStr(date) \in DOMAIN completions[h]
    /\ LET completionDate == DateStr(date)
           rows == completions[h][completionDate]
       IN  req' = [Spoil(req, p) EXCEPT ![p] =
               [Idle EXCEPT !.pc = "upsert", !.op = "toggle", !.user = u, !.habit = h,
                            !.date = date, !.completionDate = completionDate,
                            !.completed = completed,
                            !.existing = IF Len(rows) = 1 THEN 1 ELSE 0,
                            !.clean = \A q \in Procs \ {p} : Free(q)]]
    /\ trail' = IF \A q \in Procs \ {p} : Free(q) THEN trail ELSE <<>>
    /\ UNCHANGED <<habits, completions, clock>>

\* the insert of a new row: rejected by the foreign key or the unique constraint
InsertCompletion(comp, hab, h, u, d, completed) ==
    IF ForeignKeyAllows(hab, h) /\ UniqueAllows(comp, h, d)
    THEN [ok |-> TRUE,
          comp |-> [comp EXCEPT ![h][d] = Append(@, [user_id |-> u, completed |-> completed])]]
    ELSE [ok |-> FALSE, comp |-> comp]

\* as UpdateCompletion, but without .eq('id', ...): every row of the habit is set
UpdateCompletionAllRows(comp, h, d, id, completed) ==
    IF id <= Len(comp[h][d])
    THEN [ok |-> TRUE,
          comp |-> [comp EXCEPT ![h] = [e \in DOMAIN comp[h] |->
                       [i \in 1..Len(comp[h][e]) |-> [comp[h][e][i] EXCEPT !.completed = completed]]]]]
    ELSE [ok |-> FALSE, comp |-> comp]

\* as UpdateCompletion, but writing a second row instead of changing the first
UpdateCompletionAppends(comp, h, d, id, completed) ==
    IF id <= Len(comp[h][d])
    THEN [ok |-> TRUE,
          comp |-> [comp EXCEPT ![h][d] = Append(@, [user_id |-> @[id].user_id, completed |-> completed])]]
    ELSE [ok |-> FALSE, comp |-> comp]

\* as UpdateCompletion, but removing the row when the flag is false
UpdateCompletionDeletes(comp, h, d, id, completed) ==
    IF id <= Len(comp[h][d])
    THEN [ok |-> TRUE,
          comp |-> IF completed THEN [comp EXCEPT ![h][d][id].completed = completed]
                   ELSE [comp EXCEPT ![h][d] = SubSeq(@, 1, id - 1) \o SubSeq(@, id + 1, Len(@))]]
    ELSE [ok |-> FALSE, comp |-> comp]

\* the update of the row found before, addressed by its id
UpdateCompletion(comp, h, d, id, completed) ==
    IF id <= Len(comp[h][d])
    THEN [ok |-> TRUE, comp |-> [comp EXCEPT ![h][d][id].completed = completed]]
    ELSE [ok |-> FALSE, comp |-> comp]

\* as toggleHabitCompletionUpsert, but going on to updateHabitStreaks when the
\* store has reported an error
toggleHabitCompletionUpsertIgnoresError(p) ==
    /\ req[p].pc = "upsert"
    /\ LET r == req[p]
           res == IF r.existing # 0
                  THEN UpdateCompletion(completions, r.habit, r.completionDate, r.existing, r.completed)
                  ELSE InsertCompletion(completions, habits, r.habit, r.user, r.completionDate, r.completed)
       IN  /\ completions' = res.comp
           /\ req' = [req EXCEPT ![p] = [r EXCEPT !.pc = "fetch", !.date = 0]]
           /\ trail' = IF res.ok THEN trail ELSE <<>>
    /\ UNCHANGED <<habits, clock, ops>>

\* toggleHabitCompletion, the upsert: update the row found, or insert a new one;
\* an error of the store ends the request before the streaks are touched
toggleHabitCompletionUpsert(p) ==
    /\ req[p].pc = "upsert"
    /\ LET r == req[p]
           res == IF r.existing # 0
                  THEN UpdateCompletion(completions, r.habit, r.completionDate, r.existing, r.completed)
                  ELSE InsertCompletion(completions, habits, r.habit, r.user, r.completionDate, r.completed)
       IN  /\ completions' = res.comp
           /\ req' = [q \in Procs |->
                  IF q = p THEN (IF res.ok THEN [r EXCEPT !.pc = "fetch", !.date = 0] ELSE Idle)
                  ELSE IF /\ res.ok
                          /\ req[q].op = "toggle"
                          /\ req[q].pc = "fetch"
                          /\ req[q].habit = r.habit
                          /\ req[q].completionDate = r.completionDate
                       THEN [req[q] EXCEPT !.overwritten = TRUE]
                       ELSE req[q]]
           /\ trail' = IF res.ok THEN trail ELSE <<>>
    /\ UNCHANGED <<habits, clock, ops>>

\* POST /habits/:id/streaks/recalculate: getHabitById(id, user) must find the
\* habit of this user before updateHabitStreaks runs
recalculateGetHabitById(p, u, h) ==
    /\ Free(p)
    /\ \A q \in Procs : q < p => InFlight(q)
    /\ ops < MaxOps
    /\ ops' = ops + 1
    /\ LET found == habits[h].status = "live" /\ habits[h].user_id = u
       IN  req' = [Spoil(req, p) EXCEPT ![p] =
               IF found
               THEN [Idle EXCEPT !.pc = "fetch", !.op = "recalculate", !.user = u, !.habit = h,
                                 !.clean = \A q \in Procs \ {p} : Free(q)]
               ELSE Idle]
    /\ trail' = <<>>
    /\ UNCHANGED <<habits, completions, clock>>

\* updateHabitStreaks, from the select of the completed rows of the habit to the
\* end of the synchronous computation on them.  'today' comes from one
\* new Date(), 'yesterday' from a second one; midnight may pass between the two
updateHabitStreaksFetch(p) ==
    /\ req[p].pc = "fetch"
    /\ \E tick \in {0, 1} :
          /\ clock + tick <= LastDay(completions)
          /\ clock' = clock + tick
          /\ LET today == DateStr(Now(clock))
                 yesterdayStr == DateStr(MinusDays(Now(clock + tick), 1))
                 dates == FetchCompleted(completions, req[p].habit)
                 r == [req[p] EXCEPT !.pc = "persist", !.fetched = dates,
                          !.today = today, !.yesterdayStr = yesterdayStr,
                          !.currentStreak = CurrentStreak(dates, today, yesterdayStr),
                          !.longestStreak = LongestStreak(dates),
                          !.clean = @ /\ tick = 0]
             IN  req' = [(IF tick = 0 THEN req ELSE Spoil(req, p)) EXCEPT ![p] = r]
          /\ trail' = IF tick = 0 THEN trail ELSE <<>>
    /\ UNCHANGED <<habits, completions, ops>>

\* as PersistStreaks, but writing current_streak alone
PersistStreaksCurrentOnly(hab, h, currentStreak, longestStreak) ==
    IF hab[h].status = "live"
    THEN [hab EXCEPT ![h].current_streak = currentStreak]
    ELSE hab

\* as PersistStreaks, but merging: longest_streak never goes down
PersistStreaksMerge(hab, h, currentStreak, longestStreak) ==
    IF hab[h].status = "live"
    THEN [hab EXCEPT ![h].current_streak = currentStreak,
                     ![h].longest_streak = Max(@, longestStreak)]
    ELSE hab

\* the update of habits where id = habitId (no row matched is not an error)
PersistStreaks(hab, h, currentStreak, longestStreak) ==
    IF hab[h].status = "live"
    THEN [hab EXCEPT ![h].current_streak = currentStreak, ![h].longest_streak = longestStreak]
    ELSE hab

\* updateHabitStreaks, the write of both values, after which the request returns
updateHabitStreaksPersist(p) ==
    /\ req[p].pc = "persist"
    /\ habits' = PersistStreaks(habits, req[p].habit, req[p].currentStreak, req[p].longestStreak)
    /\ req' = [req EXCEPT ![p] = Idle]
    /\ trail' = IF req[p].op = "toggle" /\ req[p].clean
                THEN Push(trail, Entry(req[p])) ELSE <<>>
    /\ UNCHANGED <<completions, clock, ops>>

\* the wall clock passes midnight (UTC)
DayChange ==
    /\ clock < LastDay(completions)
    /\ clock' = clock + 1
    /\ req' = Spoil(req, 0)
    /\ trail' = <<>>
    /\ UNCHANGED <<habits, completions, ops>>

Next ==
    \/ \E u \in Users : createHabit(u)
    \/ \E u \in Users, h \in Habits : deleteHabit(u, h)
    \/ \E p \in Procs, u \in Users, h \in Habits, date \in Instants, completed \in BOOLEAN :
          toggleHabitCompletionSelect(p, u, h, date, completed)
    \/ \E p \in Procs : toggleHabitCompletionUpsert(p)
    \/ \E p \in Procs, u \in Users, h \in Habits : recalculateGetHabitById(p, u, h)
    \/ \E p \in Procs : updateHabitStreaksFetch(p)
    \/ \E p \in Procs : updateHabitStreaksPersist(p)
    \/ DayChange

Spec == Init /\ [][Next]_vars

\* ------------------------------------------- a habit with a history, one request at a time
\* The habit of user V already has completed rows for some of the days
\* 0..MaxHistory, its cached values are those of a recompute on the current day,
\* and V sends the requests.
HistoryRows == {<<>>, <<[user_id |-> "V", completed |-> TRUE]>>}

InitStreaks ==
    /\ completions \in [Habits -> [0..MaxHistory -> HistoryRows]]
    /\ clock \in 1..MaxHistory
    /\ habits = [h \in Habits |->
           LET dates == FetchCompleted(completions, h) IN
           [status |-> "live", user_id |-> "V",
            current_streak |-> CurrentStreak(dates, clock, clock - 1),
            longest_streak |-> LongestStreak(dates)]]
    /\ req = [p \in Procs |-> Idle]
    /\ ops = 0
    /\ trail = <<>>

NextStreaks ==
    \/ \E h \in Habits, date \in 0..((MaxHistory + 1) * SlotsPerDay - 1), completed \in BOOLEAN :
          toggleHabitCompletionSelect(1, "V", h, date, completed)
    \/ toggleHabitCompletionUpsert(1)
    \/ \E h \in Habits : recalculateGetHabitById(1, "V", h)
    \/ updateHabitStreaksFetch(1)
    \/ updateHabitStreaksPersist(1)

SpecStreaks == InitStreaks /\ [][NextStreaks]_vars

\* ------------------------------------------- the computation on rows in any order
SeqToSet(s) == {s[i] : i \in 1..Len(s)}

\* the arrays that hold the elements of s, each once, in some order
Perms(s) == {t \in [1..Len(s) -> SeqToSet(s)] : SeqToSet(t) = SeqToSet(s)}

\* updateHabitStreaks, the synchronous computation alone, on the rows the
\* request holds: both date strings are derived and both loops run
updateHabitStreaksCompute(p) ==
    /\ req[p].pc = "compute"
    /\ \E tick \in {0, 1} :
          /\ clock + tick <= LastDay(completions)
          /\ clock' = clock + tick
          /\ LET today == DateStr(Now(clock))
                 yesterdayStr == DateStr(MinusDays(Now(clock + tick), 1))
                 dates == req[p].fetched
             IN  req' = [req EXCEPT ![p] =
                     [req[p] EXCEPT !.pc = "persist",
                          !.today = today, !.yesterdayStr = yesterdayStr,
                          !.currentStreak = CurrentStreak(dates, today, yesterdayStr),
                          !.longestStreak = LongestStreak(dates),
                          !.clean = @ /\ tick = 0]]
    /\ UNCHANGED <<habits, completions, ops, trail>>

\* A recalculate of V's habit has received the completed rows; the store may
\* hand them over in any order.
InitOrder ==
    /\ completions \in [Habits -> [0..MaxHistory -> HistoryRows]]
    /\ clock \in 1..MaxHistory
    /\ habits = [h \in Habits |->
           LET dates == FetchCompleted(completions, h) IN
           [status |-> "live", user_id |-> "V",
            current_streak |-> CurrentStreak(dates, clock, clock - 1),
            longest_streak |-> LongestStreak(dates)]]
    /\ \E f \in Perms(FetchCompleted(completions, 1)) :
          req = [p \in Procs |->
                    IF p = 1
                    THEN [Idle EXCEPT !.pc = "compute", !.op = "recalculate", !.user = "V",
                                      !.habit = 1, !.fetched = f, !.clean = TRUE]
                    ELSE Idle]
    /\ ops = 1
    /\ trail = <<>>

NextOrder ==
    \/ updateHabitStreaksCompute(1)
    \/ NextStreaks

SpecOrder == InitOrder /\ [][NextOrder]_vars

\* ------------------------------------------- two toggles of one habit at once
\* updateHabitStreaks, the store reports an error for the select of the rows or
\* for the write of the values: the request ends with that error
\* as updateHabitStreaksFails, but undoing the upsert of the toggle: the record
\* of its key is removed
updateHabitStreaksFailsRollsBack(p) ==
    /\ req[p].pc \in {"fetch", "persist"}
    /\ req' = [Spoil(req, p) EXCEPT ![p] = [Idle EXCEPT !.pc = "failed", !.op = req[p].op]]
    /\ completions' = IF req[p].op = "toggle"
                      THEN [completions EXCEPT ![req[p].habit][req[p].completionDate] = <<>>]
                      ELSE completions
    /\ trail' = <<>>
    /\ UNCHANGED <<habits, clock, ops>>

updateHabitStreaksFails(p) ==
    /\ req[p].pc \in {"fetch", "persist"}
    /\ req' = [Spoil(req, p) EXCEPT ![p] = [Idle EXCEPT !.pc = "failed", !.op = req[p].op]]
    /\ trail' = <<>>
    /\ UNCHANGED <<habits, completions, clock, ops>>

\* V's habit has a history; two toggle requests of V have each looked up their
\* record and neither has written yet; one more request may follow.
InitRace ==
    /\ completions \in [Habits -> [Days -> HistoryRows]]
    /\ clock \in Days
    /\ habits = [h \in Habits |->
           LET dates == FetchCompleted(completions, h) IN
           [status |-> "live", user_id |-> "V",
            current_streak |-> CurrentStreak(dates, clock, clock - 1),
            longest_streak |-> LongestStreak(dates)]]
    /\ req \in [Procs -> {[Idle EXCEPT !.pc = "upsert", !.op = "toggle", !.user = "V",
                                        !.habit = 1, !.date = ParseDate(d),
                                        !.completionDate = d, !.completed = c,
                                        !.existing = Len(completions[1][d])]
                              : d \in Days, c \in BOOLEAN}]
    /\ ops = MaxOps - 1
    /\ trail = <<>>

NextRace ==
    \/ \E p \in Procs, h \in Habits, date \in Instants, completed \in BOOLEAN :
          toggleHabitCompletionSelect(p, "V", h, date, completed)
    \/ \E p \in Procs : toggleHabitCompletionUpsert(p)
    \/ \E p \in Procs, h \in Habits : recalculateGetHabitById(p, "V", h)
    \/ \E p \in Procs : updateHabitStreaksFetch(p)
    \/ \E p \in Procs : updateHabitStreaksPersist(p)
    \/ \E p \in Procs : updateHabitStreaksFails(p)

SpecRace == InitRace /\ [][NextRace]_vars

\* ------------------------------------------- the other requests on a habit's row
RowHabits == {1, 2}

\* the bodies PUT /habits/:id may carry: any of these keys, each with a value
PayloadKeys == {"title", "is_archived", "current_streak", "longest_streak"}

Payloads ==
    {[k \in K |-> full[k]] :
        K \in SUBSET PayloadKeys,
        full \in [title : {"b"}, is_archived : {TRUE},
                  current_streak : {0}, longest_streak : {0}]}

\* as allowedFields, but letting the cached values through
allowedFieldsAndStreaks ==
    {"title", "description", "category", "is_archived", "current_streak", "longest_streak"}

allowedFields == {"title", "description", "category", "is_archived"}

\* the keys of updateData that are allowed, with their values
filteredData(updateData) ==
    [k \in (DOMAIN updateData) \cap allowedFields |-> updateData[k]]

\* .update(data) on one row: the columns named are set, the others stay
UpdateRow(row, data) ==
    [f \in (DOMAIN row) \cup (DOMAIN data) |-> IF f \in DOMAIN data THEN data[f] ELSE row[f]]

\* the row with this id and this user_id, as .eq('id').eq('user_id').single() finds it
Found(hab, h, u) == hab[h].status = "live" /\ hab[h].user_id = u

\* updateHabit: nothing allowed in the body is an error, as is a habit that is
\* not found; else the allowed columns of the row are set and the row returned
updateHabit(p, u, h, updateData) ==
    /\ Free(p)
    /\ \A q \in Procs : q < p => InFlight(q)
    /\ LET data == filteredData(updateData)
           ok == DOMAIN data # {} /\ Found(habits, h, u)
           row == UpdateRow(habits[h], data)
       IN  /\ habits' = IF ok THEN [habits EXCEPT ![h] = row] ELSE habits
           /\ req' = [Spoil(req, p) EXCEPT ![p] =
                  IF ok
                  THEN [Idle EXCEPT !.pc = "done", !.op = "updateHabit", !.user = u,
                                    !.habit = h, !.updateData = updateData, !.result = <<row>>]
                  ELSE [Idle EXCEPT !.pc = "failed"]]
    /\ trail' = <<>>
    /\ UNCHANGED <<completions, clock, ops>>

\* toggleArchiveHabit: sets is_archived of the user's habit and returns the row
toggleArchiveHabit(p, u, h, isArchived) ==
    /\ Free(p)
    /\ \A q \in Procs : q < p => InFlight(q)
    /\ LET ok == Found(habits, h, u)
           row == UpdateRow(habits[h], [is_archived |-> isArchived])
       IN  /\ habits' = IF ok THEN [habits EXCEPT ![h] = row] ELSE habits
           /\ req' = [Spoil(req, p) EXCEPT ![p] =
                  IF ok
                  THEN [Idle EXCEPT !.pc = "done", !.op = "toggleArchiveHabit", !.user = u,
                                    !.habit = h, !.result = <<row>>]
                  ELSE [Idle EXCEPT !.pc = "failed"]]
    /\ trail' = <<>>
    /\ UNCHANGED <<completions, clock, ops>>

\* getHabitById: returns the user's habit, or fails when there is none
getHabitByIdReturn(hab, u, h) ==
    IF Found(hab, h, u)
    THEN [Idle EXCEPT !.pc = "done", !.op = "getHabitById", !.user = u,
                      !.habit = h, !.result = <<hab[h]>>]
    ELSE [Idle EXCEPT !.pc = "failed"]

getHabitById(p, u, h) ==
    /\ Free(p)
    /\ \A q \in Procs : q < p => InFlight(q)
    /\ req' = [Spoil(req, p) EXCEPT ![p] = getHabitByIdReturn(habits, u, h)]
    /\ trail' = <<>>
    /\ UNCHANGED <<habits, completions, clock, ops>>

\* ------------------------------------------- getUserHabits
\* the habit objects of a set of ids, oldest habit first
RECURSIVE Listing(_, _)
Listing(hab, S) ==
    IF S = {} THEN <<>>
    ELSE LET h == CHOOSE x \in S : \A y \in S : x <= y
         IN  <<[id |-> h, current_streak |-> hab[h].current_streak]>> \o Listing(hab, S \ {h})

\* .order('current_streak', descending): the store may return rows of equal
\* current_streak in any order
SortOutcomes(list) ==
    {t \in Perms(list) :
        \A i \in 1..Len(t) : \A j \in 1..Len(t) :
            i < j => t[i].current_streak >= t[j].current_streak}

\* the habits query: the user's habits, in the order asked for
\* (created_at descending by default: newest habit first)
QueryOrder(hab, u, sortBy) ==
    LET list == Listing(hab, {h \in DOMAIN hab : Found(hab, h, u)})
    IN  IF sortBy = "current_streak" THEN SortOutcomes(list) ELSE {Reverse(list)}

\* the completion rows of one user and one habit with startDate <= date <= endDate,
\* newest first
RECURSIVE WindowRows(_, _, _, _, _)
WindowRows(comp, u, h, startDate, endDate) ==
    IF endDate < startDate \/ endDate < 0 THEN <<>>
    ELSE LET rows == IF endDate \in DOMAIN comp[h]
                     THEN SelectSeq(comp[h][endDate], LAMBDA r : r.user_id = u)
                     ELSE <<>>
         IN  [i \in 1..Len(rows) |-> [completion_date |-> endDate, completed |-> rows[i].completed]]
             \o WindowRows(comp, u, h, startDate, endDate - 1)

\* completionsByHabit: the window of the last 'days' days that ends on the day
\* of endDate (startDate.setDate(endDate.getDate() - days + 1)), grouped by habit
RecentCompletions(comp, hab, u, endDate, days) ==
    [h \in DOMAIN hab |->
        WindowRows(comp, u, h, DateStr(MinusDays(endDate, days - 1)), DateStr(endDate))]

\* as isCompletedToday, but content with any record of today
hasRecordToday(recent_completions, today) ==
    \E i \in 1..Len(recent_completions) : recent_completions[i].completion_date = today

\* recent_completions.find(date === today), and its flag
isCompletedToday(recent_completions, today) ==
    LET found == {i \in 1..Len(recent_completions) :
                     recent_completions[i].completion_date = today}
    IN  /\ found # {}
        /\ recent_completions[CHOOSE i \in found : \A j \in found : i <= j].completed

\* as FilterHabits, but handing the survivors back last first
FilterHabitsReversed(list, recent, today, completed_today) ==
    Reverse(SelectSeq(list, LAMBDA hb :
        IF completed_today THEN isCompletedToday(recent[hb.id], today)
        ELSE ~isCompletedToday(recent[hb.id], today)))

\* habitsWithHistory.filter(...) for filter.completed_today
FilterHabits(list, recent, today, completed_today) ==
    SelectSeq(list, LAMBDA hb :
        IF completed_today THEN isCompletedToday(recent[hb.id], today)
        ELSE ~isCompletedToday(recent[hb.id], today))

\* getUserHabits, the habits query; no habit ends the request with []
getUserHabitsQuery(p, u, days, completed_today, sortBy) ==
    /\ Free(p)
    /\ \A q \in Procs : q < p => InFlight(q)
    /\ \E list \in QueryOrder(habits, u, sortBy) :
          req' = [Spoil(req, p) EXCEPT ![p] =
              [Idle EXCEPT !.pc = IF Len(list) = 0 THEN "done" ELSE "completions",
                           !.op = "getUserHabits", !.user = u, !.result = list,
                           !.completed_today = completed_today, !.sortBy = sortBy,
                           !.days = days]]
    /\ trail' = <<>>
    /\ UNCHANGED <<habits, completions, clock, ops>>

\* getUserHabits, from the window and the completions query to the return: the
\* window ends on the day of the query; 'today' of the filter is read when the
\* rows have arrived, midnight may have passed
getUserHabitsCompletions(p) ==
    /\ req[p].pc = "completions"
    /\ \E tick \in {0, 1} :
          /\ clock + tick <= LastDay(completions)
          /\ clock' = clock + tick
          /\ LET recent == RecentCompletions(completions, habits, req[p].user, Now(clock),
                                                req[p].days)
                 today == DateStr(Now(clock + tick))
                 list == req[p].result
             IN  req' = [Spoil(req, p) EXCEPT ![p] =
                     [req[p] EXCEPT !.pc = "done", !.today = today,
                          !.result = IF req[p].completed_today = "undefined" THEN list
                                     ELSE FilterHabits(list, recent, today,
                                                       req[p].completed_today = "true")]]
    /\ trail' = <<>>
    /\ UNCHANGED <<habits, completions, ops>>

\* ------------------------------------------- every request on the rows of two habits
\* V's first habit exists and has a history; a second habit may be created.
InitRows ==
    /\ completions \in {[h \in RowHabits |-> IF h = 1 THEN hist ELSE [d \in Days |-> <<>>]] :
                            hist \in [Days -> HistoryRows]}
    /\ clock \in Days
    /\ habits = [h \in RowHabits |->
           IF h = 1
           THEN LET dates == FetchCompleted(completions, h) IN
                [status |-> "live", user_id |-> "V", title |-> "a", is_archived |-> FALSE,
                 current_streak |-> CurrentStreak(dates, clock, clock - 1),
                 longest_streak |-> LongestStreak(dates)]
           ELSE NoHabit]
    /\ req = [p \in Procs |-> Idle]
    /\ ops = 0
    /\ trail = <<>>

NextRows ==
    \/ \E u \in Users : createHabit(u)
    \/ \E u \in Users, updateData \in Payloads : updateHabit(1, u, 1, updateData)
    \/ \E u \in Users, isArchived \in BOOLEAN : toggleArchiveHabit(1, u, 1, isArchived)
    \/ \E u \in Users, h \in RowHabits : getHabitById(1, u, h)
    \/ \E u \in Users, completed_today \in {"undefined", "true"} :
          getUserHabitsQuery(1, u, DefaultDays, completed_today, "created_at")
    \/ getUserHabitsCompletions(1)
    \/ \E d \in Days, completed \in BOOLEAN :
          toggleHabitCompletionSelect(1, "V", 1, ParseDate(d), completed)
    \/ toggleHabitCompletionUpsert(1)
    \/ updateHabitStreaksFetch(1)
    \/ updateHabitStreaksPersist(1)

SpecRows == InitRows /\ [][NextRows]_vars

\* ------------------------------------------- the list of three habits
ListHabits == {1, 2, 3}

\* Habits 2 and 3 are V's, habit 1 is V's or U's; each day of each habit has no
\* record or a completed one, the current day possibly one toggled to false,
\* all written by the owner; the cached values are those of a recompute on the
\* current day.  V asks for the list.
InitList ==
    /\ clock \in Days
    /\ \E own \in Users, marks \in [ListHabits -> [Days -> {"none", "true", "false"}]] :
          /\ \A h \in ListHabits, d \in Days : marks[h][d] = "false" => d = clock
          /\ completions = [h \in ListHabits |-> [d \in Days |->
                 IF marks[h][d] = "none" THEN <<>>
                 ELSE <<[user_id |-> IF h = 1 THEN own ELSE "V",
                         completed |-> marks[h][d] = "true"]>>]]
          /\ habits = [h \in ListHabits |->
                 LET dates == FetchCompleted(completions, h) IN
                 [status |-> "live", user_id |-> IF h = 1 THEN own ELSE "V",
                  title |-> "a", is_archived |-> FALSE,
                  current_streak |-> CurrentStreak(dates, clock, clock - 1),
                  longest_streak |-> LongestStreak(dates)]]
    /\ req = [p \in Procs |-> Idle]
    /\ ops = 0
    /\ trail = <<>>

NextList ==
    \/ \E completed_today \in {"undefined", "true", "false"} :
          getUserHabitsQuery(1, "V", DefaultDays, completed_today, "current_streak")
    \/ getUserHabitsCompletions(1)

SpecList == InitList /\ [][NextList]_vars

\* ------------------------------------------- the routes
\* What a request carries as Authorization: no header, a token of V whose
\* expiry time has passed, or a token that generateToken has issued for U or
\* for V and that has not expired.
Tokens == {"none", "expired", "tU", "tV"}

\* as JwtUser, but without the check of the expiry time
JwtUserIgnoresExpiry(token) ==
    IF token = "tU" THEN "U"
    ELSE IF token \in {"tV", "expired"} THEN "V"
    ELSE "none"

\* JwtStrategy: the bearer token is verified (signature, expiry) and the user of
\* payload.userId is looked up; "none" stands for done(null, false)
JwtUser(token) ==
    IF token = "tU" THEN "U"
    ELSE IF token = "tV" THEN "V"
    ELSE "none"

\* a request that ended in a middleware or in the catch of its handler
Response(op, token, status) ==
    [Idle EXCEPT !.pc = "failed", !.op = op, !.token = token, !.status = status]

\* authenticateToken when the strategy yields no user: 401, next() is not called
Unauthorized(p, op, token) ==
    /\ JwtUser(token) = "none"
    /\ req' = [req EXCEPT ![p] = Response(op, token, 401)]
    /\ UNCHANGED <<habits, completions, clock, ops, trail>>

\* body.date of a toggle: an ISO 8601 string (here: midnight of a day), or a
\* string that is none ('invalid-date')
InvalidDate == 0 - 1
BodyDates == {ParseDate(d) : d \in Days} \cup {InvalidDate}

\* body.completed of a toggle, as JSON text: the booleans, the strings "1" and
\* "not-a-boolean"
BodyCompleted == {"true", "false", "\"1\"", "\"not-a-boolean\""}

\* body('date').isISO8601()
isISO8601(date) == date # InvalidDate

\* body('completed').isBoolean(): the value, turned into a string, is one of
\* 'true', 'false', '1', '0'
isBoolean(v) == v \in {"true", "false", "\"true\"", "\"false\"", "\"1\"", "\"0\"", "1", "0"}

\* the value the boolean column takes from what the service hands to the store
BooleanColumn(v) == v \in {"true", "\"true\"", "\"1\"", "1"}

\* GET /habits: days, completed_today, sort_by of the query go to getUserHabits
\* as they are (days through parseInt)
GetHabits(p, token, days, completed_today, sort_by) ==
    /\ Free(p)
    /\ \/ Unauthorized(p, "GET /habits", token)
       \/ /\ JwtUser(token) # "none"
          /\ getUserHabitsQuery(p, JwtUser(token), days, completed_today, sort_by)

\* GET /habits/:id: 200 with the habit, 404 when getHabitById throws
GetHabitById(p, token, h) ==
    /\ Free(p)
    /\ \/ Unauthorized(p, "GET /habits/:id", token)
       \/ /\ JwtUser(token) # "none"
          /\ LET r == getHabitByIdReturn(habits, JwtUser(token), h)
             IN  req' = [Spoil(req, p) EXCEPT ![p] =
                     [r EXCEPT !.op = "GET /habits/:id", !.habit = h, !.token = token,
                               !.user = JwtUser(token),
                               !.status = IF r.pc = "done" THEN 200 ELSE 404]]
          /\ trail' = <<>>
          /\ UNCHANGED <<habits, completions, clock, ops>>

\* POST /habits: validateHabit wants a title of 1 to 255 characters
PostHabits(p, token, title) ==
    /\ Free(p)
    /\ \/ Unauthorized(p, "POST /habits", token)
       \/ /\ JwtUser(token) # "none"
          /\ title = ""
          /\ req' = [req EXCEPT ![p] = Response("POST /habits", token, 400)]
          /\ UNCHANGED <<habits, completions, clock, ops, trail>>
       \/ /\ JwtUser(token) # "none"
          /\ title # ""
          /\ createHabit(JwtUser(token))

\* DELETE /habits/:id
DeleteHabit(p, token, h) ==
    /\ Free(p)
    /\ \/ Unauthorized(p, "DELETE /habits/:id", token)
       \/ /\ JwtUser(token) # "none"
          /\ deleteHabit(JwtUser(token), h)

\* POST /habits/:id/toggle: validateHabitCompletion, then toggleHabitCompletion
\* with body.date (made a Date by toDate) and body.completed
PostToggle(p, token, h, date, completed) ==
    /\ Free(p)
    /\ \/ Unauthorized(p, "POST /habits/:id/toggle", token)
       \/ /\ JwtUser(token) # "none"
          /\ ~(isISO8601(date) /\ isBoolean(completed))
          /\ req' = [req EXCEPT ![p] = Response("POST /habits/:id/toggle", token, 400)]
          /\ UNCHANGED <<habits, completions, clock, ops, trail>>
       \/ /\ JwtUser(token) # "none"
          /\ isISO8601(date) /\ isBoolean(completed)
          /\ toggleHabitCompletionSelect(p, JwtUser(token), h, date, BooleanColumn(completed))

\* POST /auth/logout: behind authenticateToken; the session, if any, is
\* destroyed, the cookie cleared, and the answer is 200 with a message
PostLogout(p, token) ==
    /\ Free(p)
    /\ \/ Unauthorized(p, "POST /auth/logout", token)
       \/ /\ JwtUser(token) # "none"
          /\ req' = [req EXCEPT ![p] =
                 [Idle EXCEPT !.pc = "done", !.op = "POST /auth/logout", !.token = token,
                              !.user = JwtUser(token), !.status = 200,
                              !.result = <<"Logout successful. Token invalidated.">>]]
          /\ UNCHANGED <<habits, completions, clock, ops, trail>>

\* GET /auth/me: behind authenticateToken; answers with the user of the token
GetMe(p, token) ==
    /\ Free(p)
    /\ \/ Unauthorized(p, "GET /auth/me", token)
       \/ /\ JwtUser(token) # "none"
          /\ req' = [req EXCEPT ![p] =
                 [Idle EXCEPT !.pc = "done", !.op = "GET /auth/me", !.token = token,
                              !.user = JwtUser(token), !.status = 200,
                              !.result = <<JwtUser(token)>>]]
          /\ UNCHANGED <<habits, completions, clock, ops, trail>>

\* V has created a first habit; requests come one at a time, with any token.
InitRoutes ==
    /\ completions = [h \in RowHabits |-> [d \in Days |-> <<>>]]
    /\ clock = 0
    /\ habits = [h \in RowHabits |->
           IF h = 1
           THEN [status |-> "live", user_id |-> "V", title |-> "a", is_archived |-> FALSE,
                 current_streak |-> 0, longest_streak |-> 0]
           ELSE NoHabit]
    /\ req = [p \in Procs |-> Idle]
    /\ ops = 0
    /\ trail = <<>>

\* the queries of GET /habits: ?days, ?completed_today, ?sort_by
RouteQueries == {<<DefaultDays, "undefined", "created_at">>,
                 <<1, "true", "created_at">>,
                 <<0 - 1, "true", "created_at">>,
                 <<DefaultDays, "undefined", "priority">>}

NextRoutes ==
    \/ \E token \in Tokens, q \in RouteQueries : GetHabits(1, token, q[1], q[2], q[3])
    \/ getUserHabitsCompletions(1)
    \/ \E token \in Tokens, date \in BodyDates, completed \in BodyCompleted :
          PostToggle(1, token, 1, date, completed)
    \/ toggleHabitCompletionUpsert(1)
    \/ updateHabitStreaksFetch(1)
    \/ updateHabitStreaksPersist(1)

SpecRoutes == InitRoutes /\ [][NextRoutes]_vars

\* ------------------------------------------- every route, behind authenticateToken
\* The same start; every route is asked with any token, the list with its
\* default query and the toggle for the first day.
HabitsRouter(p, token) ==
    \/ GetHabits(p, token, DefaultDays, "undefined", "created_at")
    \/ \E h \in RowHabits : GetHabitById(p, token, h)
    \/ \E title \in {"", "a"} : PostHabits(p, token, title)
    \/ \E h \in RowHabits : DeleteHabit(p, token, h)
    \/ PostToggle(p, token, 1, ParseDate(0), "true")

NextGate ==
    \/ \E token \in Tokens : HabitsRouter(1, token)
    \/ getUserHabitsCompletions(1)
    \/ toggleHabitCompletionUpsert(1)
    \/ updateHabitStreaksFetch(1)
    \/ updateHabitStreaksPersist(1)
    \/ \E token \in Tokens : PostLogout(1, token)
    \/ \E token \in Tokens : GetMe(1, token)

SpecGate == InitRoutes /\ [][NextGate]_vars

\* ================================================================ properties
\* ------------------------------------------------------- reference notions

RECURSIVE SetToDesc(_)
SetToDesc(S) ==
    IF S = {} THEN <<>>
    ELSE LET m == CHOOSE x \in S : \A y \in S : y <= x
         IN  <<m>> \o SetToDesc(S \ {m})

\* the UTC day an instant lies in
DayOf(t) == CHOOSE d \in 0..t : d * SlotsPerDay <= t /\ t < (d + 1) * SlotsPerDay

\* the days of a habit that have a row with completed = true
CompletedDays(comp, h) ==
    {d \in DOMAIN comp[h] : \E i \in 1..Len(comp[h][d]) : comp[h][d][i].completed}

\* length of the run of consecutive days of S that ends on day d
RECURSIVE RunEndingAt(_, _)
RunEndingAt(S, d) == IF d \in S THEN 1 + RunEndingAt(S, d - 1) ELSE 0

RefCurrent(S, today) ==
    IF today \in S THEN RunEndingAt(S, today)
    ELSE IF (today - 1) \in S THEN RunEndingAt(S, today - 1)
    ELSE 0

RefLongest(S) ==
    IF S = {} THEN 0
    ELSE LET runs == {RunEndingAt(S, d) : d \in S}
         IN  CHOOSE m \in runs : \A n \in runs : n <= m

Computed(p) == req[p].pc = "persist"

\* two toggles of the same habit and date ran alone, one right after the other
TogglePair(first, second) ==
    /\ Len(trail) = 2
    /\ trail[1].habit = trail[2].habit
    /\ trail[1].completionDate = trail[2].completionDate
    /\ trail[1].completed = first
    /\ trail[2].completed = second

\* C1 (as claimed): the current streak a recompute is about to persist is the
\* reference value: the run of completed days that ends at the anchor (today if
\* completed, else yesterday), 0 without an anchor.
C1_CurrentStreakIsReference ==
    \A p \in Procs :
        (Computed(p) /\ req[p].yesterdayStr = req[p].today - 1)
        => req[p].currentStreak = RefCurrent(SeqToSet(req[p].fetched), req[p].today)

\* C2: the longest streak a recompute computes and persists is the maximum run
\* of consecutive completed days (0 for none), whatever the reference day is.
C2_LongestStreakIsMaxRun ==
    /\ \A p \in Procs :
          Computed(p) => req[p].longestStreak = RefLongest(SeqToSet(req[p].fetched))
    /\ Quiescent =>
          \A h \in Habits : habits[h].longest_streak = RefLongest(CompletedDays(completions, h))

C2_Witness ==
    \E p \in Procs :
        /\ Computed(p)
        /\ Len(req[p].fetched) = 3
        /\ req[p].longestStreak = 2
        /\ req[p].today \notin SeqToSet(req[p].fetched)

\* C3 (as claimed): whenever no request is in flight, the cached values of every
\* habit are the reference values of its completed records on the current day.
C3_CacheFreshWhenQuiescent ==
    Quiescent =>
        \A h \in Habits :
            habits[h].status = "live" =>
                /\ habits[h].current_streak = RefCurrent(CompletedDays(completions, h), clock)
                /\ habits[h].longest_streak = RefLongest(CompletedDays(completions, h))

\* C4: the upsert of a successful toggle touches exactly the record of
\* (habit, UTC day of the date argument): an existing record keeps its place and
\* takes the given flag, a missing one is created once, all other keys are unchanged.
C4_ToggleIsUpsert ==
    [][\A p \in Procs :
          (req[p].pc = "upsert" /\ req'[p].pc = "fetch") =>
              LET h == req[p].habit
                  d == DayOf(req[p].date)
                  row == [user_id |-> req[p].user, completed |-> req[p].completed]
              IN  /\ IF Len(completions[h][d]) > 0
                     THEN /\ Len(completions'[h][d]) = Len(completions[h][d])
                          /\ \A i \in 1..Len(completions[h][d]) :
                                /\ completions'[h][d][i].completed = req[p].completed
                                /\ completions'[h][d][i].user_id = completions[h][d][i].user_id
                     ELSE completions'[h][d] = <<row>>
                  /\ \A g \in Habits : \A e \in DOMAIN completions[g] :
                        <<g, e>> # <<h, d>> => completions'[g][e] = completions[g][e]
      ]_vars

\* a toggle whose date argument is not the midnight its day starts with has found
\* the record of that day and is about to set it to the opposite flag, while
\* another day of the habit has a record too
C4_Witness ==
    \E p \in Procs :
        /\ req[p].op = "toggle"
        /\ req[p].pc = "upsert"
        /\ req[p].existing = 1
        /\ req[p].date # ParseDate(req[p].completionDate)
        /\ completions[req[p].habit][req[p].completionDate][1].completed # req[p].completed
        /\ \E e \in DOMAIN completions[req[p].habit] :
              /\ e # req[p].completionDate
              /\ Len(completions[req[p].habit][e]) = 1

\* C5 (as claimed): a step of a toggle that user U sent for a habit of another
\* user V changes neither the habit's row nor its completion records.
C5_TogglesOfOthersChangeNothing ==
    [][\A p \in Procs :
          LET h == req[p].habit IN
          (/\ req[p].op = "toggle"
           /\ req[p].pc # req'[p].pc
           /\ habits[h].status = "live"
           /\ habits[h].user_id # req[p].user)
          => /\ habits'[h] = habits[h]
             /\ completions'[h] = completions[h]
      ]_vars

\* C6: toggle(habit, date, true) twice in a row leaves one record for the key and
\* the second call persists the streak values the first call persisted.
C6_ToggleTwiceIsIdempotent ==
    TogglePair(TRUE, TRUE) =>
        LET h == trail[2].habit
            d == trail[2].completionDate
        IN  /\ Len(completions[h][d]) = 1
            /\ trail[2].currentStreak = trail[1].currentStreak
            /\ trail[2].longestStreak = trail[1].longestStreak
            /\ habits[h].current_streak = trail[1].currentStreak
            /\ habits[h].longest_streak = trail[1].longestStreak

C6_Witness ==
    /\ TogglePair(TRUE, TRUE)
    /\ trail[2].currentStreak >= 1
    /\ trail[2].longestStreak > trail[2].currentStreak

\* C7: no (habit_id, completion_date) has more than one completion record, also
\* when two toggles both found no record before either inserted.
C7_OneRecordPerKey ==
    \A h \in Habits : \A d \in DOMAIN completions[h] : Len(completions[h][d]) <= 1

\* two toggles of one key both found no record; one has inserted, the other not yet
C7_Witness ==
    \E p \in Procs, q \in Procs :
        /\ p # q
        /\ req[p].op = "toggle" /\ req[p].pc = "fetch" /\ req[p].existing = 0
        /\ req[q].op = "toggle" /\ req[q].pc = "upsert" /\ req[q].existing = 0
        /\ req[p].habit = req[q].habit
        /\ req[p].completionDate = req[q].completionDate
        /\ Len(completions[req[p].habit][req[p].completionDate]) = 1

\* C8 (as claimed): the set the recompute of a toggle reads always contains that
\* toggle's own write.
C8_ReadContainsOwnWrite ==
    \A p \in Procs :
        (req[p].op = "toggle" /\ Computed(p) /\ req[p].completed)
        => req[p].completionDate \in SeqToSet(req[p].fetched)

\* C8 (amended): in a toggle the recompute starts only from the committed upsert,
\* it reads all completed records of the habit as they are at that moment, and
\* that set shows the toggle's own write unless another request changed or
\* deleted that record after the upsert.
C8_ReadIsFullAndOwnWriteUnlessOverwritten ==
    [][\A p \in Procs :
          LET h == req[p].habit
              d == req[p].completionDate
          IN  /\ (req[p].op = "toggle" /\ req[p].pc # "fetch" /\ req'[p].pc = "fetch") =>
                    /\ req[p].pc = "upsert"
                    /\ Len(completions'[h][d]) = 1
                    /\ completions'[h][d][1].completed = req[p].completed
              /\ (req[p].pc # "persist" /\ req'[p].pc = "persist") =>
                    /\ req[p].pc = "fetch"
                    /\ SeqToSet(req'[p].fetched) = CompletedDays(completions, h)
                    /\ (req[p].op = "toggle" /\ ~req[p].overwritten) =>
                          (d \in SeqToSet(req'[p].fetched) <=> req[p].completed)
      ]_vars

C8_Witness ==
    \E p \in Procs :
        /\ req[p].op = "toggle"
        /\ Computed(p)
        /\ ~req[p].overwritten
        /\ req[p].completed
        /\ req[p].completionDate \in SeqToSet(req[p].fetched)
        /\ Len(req[p].fetched) = 2
        /\ \E q \in Procs : q # p /\ req[q].op = "toggle" /\ req[q].pc = "fetch"

\* C9: after toggle(d, true) and then toggle(d, false), run alone on one day, the
\* persisted values are those of a recompute on the completed days without d;
\* only records with completed = true are read by a recompute.
C9_ToggleToFalseIsRemoval ==
    /\ (Quiescent /\ TogglePair(TRUE, FALSE)) =>
          LET h == trail[2].habit
              d == trail[2].completionDate
              rest == SetToDesc(CompletedDays(completions, h) \ {d})
          IN  /\ d \notin CompletedDays(completions, h)
              /\ Len(completions[h][d]) = 1
              /\ habits[h].current_streak = CurrentStreak(rest, clock, clock - 1)
              /\ habits[h].longest_streak = LongestStreak(rest)
              /\ trail[2].currentStreak = habits[h].current_streak
              /\ trail[2].longestStreak = habits[h].longest_streak
    /\ \A p \in Procs :
          (Computed(p) /\ req[p].clean) =>
              SeqToSet(req[p].fetched) = CompletedDays(completions, req[p].habit)

C9_Witness ==
    /\ Quiescent
    /\ TogglePair(TRUE, FALSE)
    /\ CompletedDays(completions, trail[2].habit) # {}
    /\ trail[1].currentStreak > trail[2].currentStreak
    /\ trail[2].currentStreak >= 1
    /\ trail[1].longestStreak > trail[2].longestStreak

\* C10 (as claimed): when today is not completed but yesterday is, the current
\* streak is the length of the run of completed days that ends yesterday.
C10_GraceDayRun ==
    \A p \in Procs :
        LET S == SeqToSet(req[p].fetched) IN
        (/\ Computed(p)
         /\ req[p].yesterdayStr = req[p].today - 1
         /\ req[p].today \notin S
         /\ req[p].yesterdayStr \in S)
        => /\ req[p].currentStreak = RunEndingAt(S, req[p].yesterdayStr)
           /\ req[p].currentStreak >= 1

\* C11: broken streak: when neither today nor the day before is among the
\* completed dates a recompute read, its current streak is 0 whatever older
\* history there is, and its longest streak is still the maximum run.
C11_BrokenStreak ==
    \A p \in Procs :
        LET S == SeqToSet(req[p].fetched) IN
        (/\ Computed(p)
         /\ req[p].today \notin S
         /\ (req[p].today - 1) \notin S)
        => /\ req[p].currentStreak = 0
           /\ req[p].longestStreak = RefLongest(S)

\* an older run of two days, then a gap of two days or more up to today
C11_Witness ==
    \E p \in Procs :
        LET S == SeqToSet(req[p].fetched) IN
        /\ Computed(p)
        /\ req[p].today \notin S
        /\ (req[p].today - 1) \notin S
        /\ (req[p].today - 2) \notin S
        /\ req[p].longestStreak = 2
        /\ req[p].currentStreak = 0

\* C12: a habit without a completed record has the streak values (0, 0): the row
\* createHabit inserts carries 0 and 0, a recompute that finds no completed
\* record (no record at all, or only records with flag false) computes 0 and 0,
\* and its write puts 0 and 0 into the habit's row.
C12_NoCompletedMeansZero ==
    [][/\ \A h \in DOMAIN habits :
             (habits[h].status # "live" /\ habits'[h].status = "live") =>
                 /\ habits'[h].current_streak = 0
                 /\ habits'[h].longest_streak = 0
       /\ \A p \in Procs :
             LET h == req[p].habit IN
             /\ (/\ req[p].pc = "fetch"
                 /\ req'[p].pc = "persist"
                 /\ CompletedDays(completions, h) = {}) =>
                    /\ req'[p].fetched = <<>>
                    /\ req'[p].currentStreak = 0
                    /\ req'[p].longestStreak = 0
             /\ (/\ req[p].pc = "persist"
                 /\ req'[p].pc # "persist"
                 /\ req[p].fetched = <<>>
                 /\ habits[h].status = "live") =>
                    /\ habits'[h].current_streak = 0
                    /\ habits'[h].longest_streak = 0
      ]_vars

\* the only record of a habit was toggled to false; the cached values are still
\* those of the completed record, and the recompute has found nothing
C12_Witness ==
    \E p \in Procs :
        LET h == req[p].habit IN
        /\ req[p].op = "toggle"
        /\ Computed(p)
        /\ req[p].fetched = <<>>
        /\ habits[h].status = "live"
        /\ habits[h].current_streak = 1
        /\ habits[h].longest_streak = 1
        /\ \E d \in DOMAIN completions[h] :
              Len(completions[h][d]) = 1 /\ ~completions[h][d][1].completed

\* C13: the streak pair of a recompute depends only on the set of completed
\* dates and on the reference day: it is the pair computed from that set listed
\* newest first, in whatever order the rows arrived, and the set a recompute
\* that ran undisturbed has read is the set of completed days of the table,
\* whatever the order of the toggles that built it.
C13_OrderIndependence ==
    \A p \in Procs :
        LET S == SeqToSet(req[p].fetched) IN
        Computed(p) =>
            /\ req[p].currentStreak =
                   CurrentStreak(SetToDesc(S), req[p].today, req[p].yesterdayStr)
            /\ req[p].longestStreak = LongestStreak(SetToDesc(S))
            /\ req[p].clean => S = CompletedDays(completions, req[p].habit)

\* three rows that arrived neither newest first nor oldest first
C13_Witness ==
    \E p \in Procs :
        LET S == SeqToSet(req[p].fetched) IN
        /\ Computed(p)
        /\ Len(req[p].fetched) = 3
        /\ req[p].fetched # SetToDesc(S)
        /\ req[p].fetched # Reverse(SetToDesc(S))
        /\ req[p].currentStreak >= 2
        /\ req[p].longestStreak = 3

\* C14: after concurrent toggles of one habit have all finished, a recompute
\* (of a recalculate or of a later toggle) that runs alone and writes leaves in
\* the habit's row the values computed from the completed records the table
\* holds at that moment.
C14_LoneRecomputeCorrects ==
    [][\A p \in Procs :
          (req[p].pc = "persist" /\ req'[p].pc = "idle" /\ req[p].clean) =>
              LET h == req[p].habit
                  S == SetToDesc(CompletedDays(completions', h))
              IN  /\ habits'[h].current_streak = CurrentStreak(S, clock', clock' - 1)
                  /\ habits'[h].longest_streak = LongestStreak(S)
      ]_vars

\* the two toggles have left both cached values stale, and a recalculate that
\* runs alone is about to overwrite them
C14_Witness ==
    \E p \in Procs :
        LET h == req[p].habit IN
        /\ req[p].op = "recalculate"
        /\ Computed(p)
        /\ req[p].clean
        /\ habits[h].current_streak # req[p].currentStreak
        /\ habits[h].longest_streak > req[p].longestStreak

\* C15 (as claimed): the 'today' and 'yesterday' one invocation of
\* updateHabitStreaks uses are one day apart, also when midnight passes
\* while it runs.
C15_ReferenceDayCapturedOnce ==
    \A p \in Procs :
        (Computed(p) /\ Len(req[p].fetched) > 0)
        => req[p].yesterdayStr = req[p].today - 1

\* C16: a recompute has no partial success: a step either leaves both cached
\* values of a habit as they were, or it is the write of a recompute and puts
\* both values of that one computation into the row; a recompute that ends
\* with an error of the store leaves the row untouched.
C16_NoPartialRecompute ==
    [][/\ \A h \in Habits :
             \/ /\ habits'[h].current_streak = habits[h].current_streak
                /\ habits'[h].longest_streak = habits[h].longest_streak
             \/ \E p \in Procs :
                   /\ req[p].pc = "persist"
                   /\ req'[p].pc = "idle"
                   /\ req[p].habit = h
                   /\ habits'[h].current_streak = req[p].currentStreak
                   /\ habits'[h].longest_streak = req[p].longestStreak
       /\ \A p \in Procs :
             (req[p].pc # "failed" /\ req'[p].pc = "failed") => habits' = habits
      ]_vars

\* both toggles have written their record and both recomputes have failed: the
\* row still holds the values from before, which no longer fit the records
C16_Witness ==
    /\ \A p \in Procs : req[p].pc = "failed"
    /\ \E h \in Habits :
          LET S == SetToDesc(CompletedDays(completions, h)) IN
          /\ habits[h].current_streak # CurrentStreak(S, clock, clock - 1)
          /\ habits[h].longest_streak # LongestStreak(S)

\* C17: the cached values of a habit are written by the write of a recompute
\* alone: a step that changes current_streak or longest_streak of a habit is that
\* write, so createHabit, updateHabit (whatever its body carries),
\* toggleArchiveHabit, getUserHabits and getHabitById leave both as they are.
C17_OnlyRecomputeWritesStreaks ==
    [][\A h \in DOMAIN habits :
          (\/ habits'[h].current_streak # habits[h].current_streak
           \/ habits'[h].longest_streak # habits[h].longest_streak)
          => \E p \in Procs :
                /\ req[p].pc = "persist"
                /\ req'[p].pc = "idle"
                /\ req[p].habit = h
      ]_vars

\* updateHabit has set the title from a body that also carried both cached
\* values, different from the ones the row holds
C17_Witness ==
    \E p \in Procs :
        LET h == req[p].habit IN
        /\ req[p].op = "updateHabit"
        /\ req[p].pc = "done"
        /\ {"title", "current_streak", "longest_streak"} \subseteq DOMAIN req[p].updateData
        /\ habits[h].title = req[p].updateData.title
        /\ habits[h].current_streak > req[p].updateData.current_streak
        /\ habits[h].longest_streak > req[p].updateData.longest_streak

\* C18: completion records are written by the upsert of a toggle alone and are
\* never removed while their habit exists: under toggles, recomputes, updates
\* and reads no (habit, date) loses its record, and a toggle to false leaves
\* the record in place with the flag false.
C18_RecordsNeverDeleted ==
    [][\A h \in DOMAIN habits :
          (habits[h].status = "live" /\ habits'[h].status = "live") =>
              /\ \A d \in DOMAIN completions[h] :
                    Len(completions'[h][d]) >= Len(completions[h][d])
              /\ completions'[h] # completions[h] =>
                    \E p \in Procs :
                        /\ req[p].op = "toggle" /\ req[p].habit = h
                        /\ req[p].pc = "upsert" /\ req'[p].pc = "fetch"
              /\ \A p \in Procs :
                    (/\ req[p].op = "toggle" /\ req[p].habit = h
                     /\ req[p].pc = "upsert" /\ req'[p].pc = "fetch"
                     /\ ~req[p].completed) =>
                        LET rows == completions'[h][req[p].completionDate]
                        IN  Len(rows) = 1 /\ ~rows[1].completed
      ]_vars

\* a completed record has been toggled to false and is still there
C18_Witness ==
    /\ TogglePair(TRUE, FALSE)
    /\ LET rows == completions[trail[2].habit][trail[2].completionDate]
       IN  Len(rows) = 1 /\ ~rows[1].completed
    /\ habits[trail[2].habit].status = "live"

\* the ids of a list of habit objects
Ids(list) == {list[i].id : i \in 1..Len(list)}

\* C19: getUserHabits lists the user's habits; with completed_today = true it
\* returns exactly those of them whose window of recent completions (the user's
\* records of the last 'days' days up to the day of the query) holds a
\* record of today with completed = true, with completed_today = false exactly
\* the others, so that a missing record and a record with flag false both
\* count as not completed today.
C19_CompletedTodayFilter ==
    [][\A p \in Procs :
          /\ (req[p].pc = "idle" /\ req'[p].op = "getUserHabits") =>
                Ids(req'[p].result) = {h \in DOMAIN habits : Found(habits, h, req'[p].user)}
          /\ (req[p].pc = "completions" /\ req'[p].pc = "done") =>
                LET today == req'[p].today
                    hit == {h \in Ids(req[p].result) :
                               /\ today \in DOMAIN completions[h]
                               /\ today <= clock
                               /\ today > clock - req[p].days
                               /\ \E i \in 1..Len(completions[h][today]) :
                                     /\ completions[h][today][i].user_id = req[p].user
                                     /\ completions[h][today][i].completed}
                IN  /\ req[p].completed_today = "true" => Ids(req'[p].result) = hit
                    /\ req[p].completed_today = "false" =>
                          Ids(req'[p].result) = Ids(req[p].result) \ hit
                    /\ req[p].completed_today = "undefined" =>
                          req'[p].result = req[p].result
      ]_vars

\* asked for the habits not completed today, V got one without a record of
\* today and one whose record of today has the flag false, and not the third
C19_Witness ==
    \E p \in Procs :
        /\ req[p].op = "getUserHabits"
        /\ req[p].pc = "done"
        /\ req[p].completed_today = "false"
        /\ req[p].today = clock
        /\ \E g \in Ids(req[p].result) : completions[g][clock] = <<>>
        /\ \E g \in Ids(req[p].result) :
              Len(completions[g][clock]) = 1 /\ ~completions[g][clock][1].completed
        /\ \E g \in DOMAIN habits :
              Found(habits, g, req[p].user) /\ g \notin Ids(req[p].result)

\* position of a habit object in a list
Pos(list, hb) == CHOOSE i \in 1..Len(list) : list[i] = hb

\* C20: filtering by completed_today = false and sorting by current_streak
\* descending commute: the list getUserHabits returns, filtered after the sort,
\* is a list that sorting the filtered habits gives (the only one when no two
\* streaks are equal), and it keeps the relative order of the sort.
C20_FilterSortCommute ==
    [][\A p \in Procs :
          (/\ req[p].pc = "completions" /\ req'[p].pc = "done"
           /\ req[p].sortBy = "current_streak"
           /\ req[p].completed_today = "false") =>
              LET sorted == req[p].result
                  out == req'[p].result
                  today == req'[p].today
                  recent == RecentCompletions(completions, habits, req[p].user, Now(clock),
                                              req[p].days)
                  unsorted == Listing(habits, Ids(sorted))
              IN  /\ out \in SortOutcomes(FilterHabits(unsorted, recent, today, FALSE))
                  /\ \A i \in 1..Len(out) : \A j \in 1..Len(out) :
                        i < j => Pos(sorted, out[i]) < Pos(sorted, out[j])
      ]_vars

\* of three habits the one with the middle streak is completed today and is
\* dropped; the two that stay come back longer streak first, which is not the
\* order in which they were created
C20_Witness ==
    \E p \in Procs :
        LET out == req[p].result IN
        /\ req[p].op = "getUserHabits"
        /\ req[p].pc = "done"
        /\ req[p].sortBy = "current_streak"
        /\ req[p].completed_today = "false"
        /\ Len(out) = 2
        /\ out[1].current_streak > out[2].current_streak
        /\ out[1].id > out[2].id
        /\ \E g \in DOMAIN habits :
              /\ Found(habits, g, req[p].user)
              /\ g \notin Ids(out)
              /\ habits[g].current_streak >= out[2].current_streak

\* C26: the values a recompute has computed and the values the habits row holds
\* satisfy 0 <= current_streak <= longest_streak, whatever the completed dates
\* (dates after today included) and the reference day are; and the current
\* streak is positive only if the day the recompute took for today, or the day
\* before it, is among the completed dates.
C26_StreakBounds ==
    /\ \A h \in Habits :
          habits[h].status = "live" =>
              /\ 0 <= habits[h].current_streak
              /\ habits[h].current_streak <= habits[h].longest_streak
    /\ \A p \in Procs :
          Computed(p) =>
              /\ 0 <= req[p].currentStreak
              /\ req[p].currentStreak <= req[p].longestStreak
              /\ req[p].currentStreak > 0 =>
                     \/ req[p].today \in SeqToSet(req[p].fetched)
                     \/ (req[p].today - 1) \in SeqToSet(req[p].fetched)

\* a recompute on rows that came out of order, with a positive current streak
\* below the longest one
C26_Witness ==
    \E p \in Procs :
        /\ Computed(p)
        /\ req[p].fetched # SortDesc(req[p].fetched)
        /\ req[p].currentStreak > 0
        /\ req[p].currentStreak < req[p].longestStreak

\* C28: when updateHabitStreaks fails inside a toggle (the select of the rows or
\* the write of the values reports an error), the toggle ends with an error, the
\* record it has upserted stays as it is (no rollback: the tables are untouched
\* by the failing step, the record of its key is there and, if no other request
\* ran meanwhile, carries the flag of the toggle), and the cached streak values
\* keep their values; they change only in the write of a recompute that succeeds.
C28_RecomputeFailureKeepsRecordAndCache ==
    [][/\ \A p \in Procs :
             (/\ req[p].op = "toggle"
              /\ req[p].pc \in {"fetch", "persist"}
              /\ req'[p].pc \notin {"fetch", "persist", "idle"})
             => LET h == req[p].habit
                    d == req[p].completionDate
                IN  /\ req'[p].pc = "failed"
                    /\ habits' = habits
                    /\ completions' = completions
                    /\ Len(completions'[h][d]) = 1
                    /\ req[p].clean => completions'[h][d][1].completed = req[p].completed
       /\ habits' # habits =>
             \E p \in Procs : req[p].pc = "persist" /\ req'[p].pc = "idle"
      ]_vars

\* a toggle has ended with the error of its recompute: its record is in the
\* table and the cached longest streak is not the one of the records
C28_Witness ==
    \E p \in Procs :
        /\ req[p].pc = "failed"
        /\ req[p].op = "toggle"
        /\ \E d \in DOMAIN completions[1] : Len(completions[1][d]) = 1
        /\ habits[1].longest_streak # RefLongest(CompletedDays(completions, 1))

\* C29: when the upsert of a toggle fails (the key it wants to insert has been
\* taken by a racing insert, or the habit or the row it found is gone), the
\* toggle ends there: it never enters updateHabitStreaks, and its step leaves the
\* cached current_streak and longest_streak, and the records, as they were.
C29_UpsertFailureSkipsRecompute ==
    [][\A p \in Procs :
          LET h == req[p].habit
              d == req[p].completionDate
          IN  (/\ req[p].pc = "upsert"
               /\ req'[p].pc # "upsert"
               /\ \/ req[p].existing = 0 /\ Len(completions[h][d]) > 0
                  \/ req[p].existing = 0 /\ habits[h].status # "live"
                  \/ req[p].existing > Len(completions[h][d]))
              => /\ req'[p].pc \notin {"fetch", "compute", "persist"}
                 /\ habits' = habits
                 /\ completions' = completions
      ]_vars

\* a toggle that found no record is about to insert, and a racing toggle has
\* inserted the record of that key and not yet recomputed
C29_Witness ==
    \E p \in Procs, q \in Procs :
        /\ p # q
        /\ req[p].pc = "upsert"
        /\ req[p].existing = 0
        /\ req[q].op = "toggle"
        /\ req[q].pc = "fetch"
        /\ req[q].habit = req[p].habit
        /\ req[q].completionDate = req[p].completionDate
        /\ Len(completions[req[p].habit][req[p].completionDate]) = 1

\* C27 (as claimed): for every window size days >= 1, the day the completed-today
\* filter of getUserHabits takes for today lies inside the window of recent
\* completions the same call has fetched, also when midnight passes during the
\* call; so no habit of the user with a completed record of that day is
\* classified as not completed today.
C27_TodayInsideWindow ==
    [][\A p \in Procs :
          (/\ req[p].pc = "completions" /\ req'[p].pc = "done"
           /\ req[p].days >= 1
           /\ req[p].completed_today # "undefined") =>
              LET endDate == Now(clock)
                  startDate == MinusDays(endDate, req[p].days - 1)
                  today == req'[p].today
                  done == {h \in Ids(req[p].result) :
                              /\ today \in DOMAIN completions[h]
                              /\ \E i \in 1..Len(completions[h][today]) :
                                    /\ completions[h][today][i].user_id = req[p].user
                                    /\ completions[h][today][i].completed}
              IN  /\ DateStr(startDate) <= today
                  /\ today <= DateStr(endDate)
                  /\ req[p].completed_today = "false" => Ids(req'[p].result) \cap done = {}
                  /\ req[p].completed_today = "true" => done \subseteq Ids(req'[p].result)
      ]_vars

\* the tokens that verify: signed by generateToken and not expired
ValidTokens == {"tU", "tV"}

\* C21 (as claimed): a habit-list request with a negative window size, or with a
\* sort key outside {title, current_streak, created_at}, ends with an error and
\* nothing is fetched or returned for it.
C21_InvalidListParametersRejected ==
    \A p \in Procs :
        (/\ req[p].op = "getUserHabits"
         /\ \/ req[p].days < 0
            \/ req[p].sortBy \notin {"title", "current_streak", "created_at"})
        => /\ req[p].pc = "failed"
           /\ req[p].result = <<>>

\* C22 (as claimed): an authenticated toggle request whose date is no ISO 8601
\* date, or whose completed value is not a JSON boolean, is answered 400 before
\* toggleHabitCompletion runs: no record and no streak value is touched.
C22_InvalidToggleBodyRejected ==
    [][\A token \in ValidTokens, date \in BodyDates, completed \in BodyCompleted :
          (/\ date = InvalidDate \/ completed \notin {"true", "false"}
           /\ PostToggle(1, token, 1, date, completed))
          => /\ req'[1].pc = "failed"
             /\ req'[1].status = 400
             /\ habits' = habits
             /\ completions' = completions
      ]_vars

\* C23: a request to a route of /api/habits that carries no valid bearer token is
\* answered 401, and its step reads and changes nothing: no habit, no completion
\* record, no streak value, and nothing is returned.
C23_NoTokenNoService ==
    [][\A token \in Tokens \ ValidTokens :
          HabitsRouter(1, token)
          => /\ req'[1].pc = "failed"
             /\ req'[1].status = 401
             /\ req'[1].token = token
             /\ req'[1].user = "none"
             /\ req'[1].result = <<>>
             /\ habits' = habits
             /\ completions' = completions
             /\ ops' = ops
      ]_vars

\* V's toggle ran and left a record and a streak; then a toggle with an expired
\* token was answered 401
C23_Witness ==
    /\ req[1].op = "POST /habits/:id/toggle"
    /\ req[1].status = 401
    /\ req[1].token = "expired"
    /\ Len(completions[1][0]) = 1
    /\ habits[1].longest_streak = 1

\* C24: once its owner has deleted a habit, the habit stays deleted whatever
\* requests follow (ids are not handed out again), and every GET /habits/:id for
\* it that passes authentication fails with 404.
C24_DeletedHabitNotFound ==
    [][\A h \in DOMAIN habits :
          /\ (/\ habits[h].status = "live"
              /\ \E token \in ValidTokens :
                    JwtUser(token) = habits[h].user_id /\ DeleteHabit(1, token, h))
             => habits'[h].status = "deleted"
          /\ habits[h].status = "deleted" =>
                /\ habits'[h].status = "deleted"
                /\ \A token \in ValidTokens :
                      GetHabitById(1, token, h)
                      => req'[1].pc = "failed" /\ req'[1].status = 404
      ]_vars

\* V has deleted the first habit and created another one since; V's GET for the
\* first is answered 404
C24_Witness ==
    /\ req[1].op = "GET /habits/:id"
    /\ req[1].habit = 1
    /\ req[1].token = "tV"
    /\ req[1].status = 404
    /\ habits[1].status = "deleted"
    /\ habits[2].status = "live"
    /\ habits[2].user_id = "V"

\* C25 (as claimed): POST /api/auth/logout is answered 200 with a message for
\* every request, also for one that carries no bearer token.
C25_LogoutAlways200 ==
    \A p \in Procs :
        req[p].op = "POST /auth/logout" => req[p].status = 200 /\ req[p].result # <<>>

\* C30 (as claimed): after POST /auth/logout has succeeded for a request with
\* token t, a later request that presents t to a protected route is answered 401.
C30_LogoutInvalidatesToken ==
    [][\A p \in Procs, q \in Procs :
          (/\ req[q].op = "POST /auth/logout"
           /\ req[q].status = 200
           /\ req'[p] # req[p]
           /\ req'[p].op \in {"GET /auth/me", "GET /habits/:id"}
           /\ req'[p].token = req[q].token)
          => req'[p].status = 401
      ]_vars

====
